---------------------------- MODULE Spec2Model ----------------------------
(***************************************************************************)
(* bibox-market-maker-chart: one run of BiboxMarketMakerChart(argv).main() *)
(* as a sequential state machine.  The program counter pc stands at the    *)
(* next blocking call of main; the collaborators (exchange client, price   *)
(* readers, clock, plotting library) answer nondeterministically.          *)
(***************************************************************************)
EXTENDS Integers, Sequences, FiniteSets, TLC

VARIABLES
    argv,                \* the command line, each option <<>> (absent) or <<value>>
    arguments,           \* self.arguments, the parsed namespace
    backend,             \* the matplotlib backend selected in __init__
    pc,                  \* position of the run inside main
    clock,               \* the wall clock, in ticks
    start_timestamp,     \* main's local
    end_timestamp,       \* main's local
    calls,               \* the calls main has made, in order, with their arguments
    attempts,            \* requests issued by the running get_trades call
    trades,              \* main's local
    prices,              \* main's local
    alternative_prices,  \* main's local
    sell_trades,         \* draw's local
    buy_trades,          \* draw's local
    plot,                \* the calls made on the plotting library, in order
    saved,               \* the files written by savefig
    shown,               \* whether the interactive viewer has been opened
    error                \* the exception that left main, as <<>> or <<type>>

vars == <<argv, arguments, backend, pc, clock, start_timestamp, end_timestamp,
          calls, attempts, trades, prices, alternative_prices, sell_trades,
          buy_trades, plot, saved, shown, error>>

---------------------------------------------------------------------------
(* Bounds of the model. *)

MaxRetry == 1          \* largest --bibox-retry-count given on the command line

MaxTrades == 2         \* longest trade list the exchange returns

TicksPerSecond == 2    \* resolution of the wall clock

MaxClockStep == 1      \* ticks that may pass between the two clock reads

(* Program constants. *)

DefaultRetryCount == 20

---------------------------------------------------------------------------
(* Python values. *)

None == <<>>

Some(v) == <<v>>

\* Python truthiness of an optional string: None and "" are falsy.
Truthy(opt) == opt # None /\ opt[1] # ""

\* int(): truncation toward zero of a time given in ticks.
IntOfTicks(t) ==
    IF t >= 0 THEN t \div TicksPerSecond ELSE -((-t) \div TicksPerSecond)

SeqsUpTo(S, n) == UNION {[1..k -> S] : k \in 0..n}

---------------------------------------------------------------------------
(* market_maker_stats.util *)

UnitSeconds(unit) ==
    CASE unit = "s" -> 1
      [] unit = "m" -> 60
      [] unit = "h" -> 3600
      [] unit = "d" -> 86400

\* A duration expression is a sequence of <<count, unit>> terms ("1m2s").
RECURSIVE to_seconds(_)
to_seconds(past) ==
    IF past = <<>> THEN 0
    ELSE past[1][1] * UnitSeconds(past[1][2]) + to_seconds(Tail(past))

\* Epoch seconds to the plotting library's date coordinate: days counted from
\* a day before the epoch.  The model keeps the coordinate in seconds, counted
\* from the day before 1970-01-01.
timestamp_to_x(timestamp) == timestamp + 86400

Abs(n) == IF n < 0 THEN -n ELSE n

\* Marker size: the traded amount valued in USD.
amount_to_size(symbol, amount) ==
    IF symbol = "DAI" THEN Abs(amount) ELSE 2 * Abs(amount)

---------------------------------------------------------------------------
(* __init__ *)

PastChoices == { <<<<2, "s">>>>, <<<<1, "m">>, <<1, "s">>>> }

CommandLines ==
    [ output                         : {None, Some(""), Some("chart.png")},
      price_history_file             : {None, Some(""), Some("prices.json")},
      alternative_price_history_file : {None, Some(""), Some("alt.json")},
      bibox_retry_count              : {None} \cup {Some(n) : n \in 0..MaxRetry},
      pair                           : {"ETH/DAI"},
      past                           : PastChoices ]

\* parser.parse_args: options keep their value, an absent option its default.
ParseArgs(cmd) ==
    [ output                         |-> cmd.output,
      price_history_file             |-> cmd.price_history_file,
      alternative_price_history_file |-> cmd.alternative_price_history_file,
      bibox_retry_count              |->
          IF cmd.bibox_retry_count = None THEN DefaultRetryCount
          ELSE cmd.bibox_retry_count[1],
      pair                           |-> cmd.pair,
      past                           |-> cmd.past ]

SelectBackend(args) == IF Truthy(args.output) THEN "Agg" ELSE "default"

\* The instant the process starts: the last tick of a second.
ClockStart == 1000 * TicksPerSecond + (TicksPerSecond - 1)

Init ==
    /\ argv \in CommandLines
    /\ arguments = ParseArgs(argv)
    /\ backend = SelectBackend(arguments)
    /\ pc = "main"
    /\ clock = ClockStart
    /\ start_timestamp = 0
    /\ end_timestamp = 0
    /\ calls = <<>>
    /\ attempts = 0
    /\ trades = <<>>
    /\ prices = <<>>
    /\ alternative_prices = <<>>
    /\ sell_trades = <<>>
    /\ buy_trades = <<>>
    /\ plot = <<>>
    /\ saved = {}
    /\ shown = FALSE
    /\ error = None

---------------------------------------------------------------------------
(* main *)

\* Faulty variant: the exception is caught and the run goes on to the chart.
Raise_Swallowed(e) ==
    /\ pc' = (IF pc = "draw" THEN "done" ELSE "draw")
    /\ error' = Some(e)

\* An exception nobody catches leaves main and ends the run.
Raise(e) ==
    /\ pc' = "failed"
    /\ error' = Some(e)

Call(fn, into, source, from, to, retry_count) ==
    [ fn |-> fn, into |-> into, source |-> source,
      from_timestamp |-> from, to_timestamp |-> to, retry_count |-> retry_count ]

\* Lines 61-62: two reads of time.time(), the second no earlier than the first.
MainWindow ==
    /\ pc = "main"
    /\ \E step \in 0..MaxClockStep :
          /\ start_timestamp' =
                 IntOfTicks(clock - to_seconds(arguments.past) * TicksPerSecond)
          /\ end_timestamp' = IntOfTicks(clock + step)
          /\ clock' = clock + step
    /\ pc' = "get_trades"
    /\ UNCHANGED <<argv, arguments, backend, calls, attempts, trades, prices,
                   alternative_prices, sell_trades, buy_trades, plot, saved,
                   shown, error>>

\* Faulty variant: the command line's retry count is not passed on.
GetTradesCall_DefaultRetry ==
    Call("get_trades", "trades", Some(arguments.pair), start_timestamp,
         end_timestamp, Some(DefaultRetryCount))

\* Lines 64-68: get_trades and its arguments.
GetTradesCall ==
    Call("get_trades", "trades", Some(arguments.pair), start_timestamp,
         end_timestamp, Some(arguments.bibox_retry_count))

\* Lines 64-68: the call of bibox_api.get_trades.
CallGetTrades ==
    /\ pc = "get_trades"
    /\ calls' = Append(calls, GetTradesCall)
    /\ attempts' = 0
    /\ pc' = "fetching"
    /\ UNCHANGED <<argv, arguments, backend, clock, start_timestamp,
                   end_timestamp, trades, prices, alternative_prices,
                   sell_trades, buy_trades, plot, saved, shown, error>>

---------------------------------------------------------------------------
(* BiboxApi.get_trades: the bounded synchronous retry loop of the client. *)

Trade(timestamp, price, money, money_symbol, is_sell) ==
    [ timestamp |-> timestamp, price |-> price, money |-> money,
      money_symbol |-> money_symbol, is_sell |-> is_sell ]

\* The trades the exchange may report for the window [from, to].
TradeUniverse(from, to) ==
    { Trade(from, 10, 5, "DAI", TRUE),
      Trade(to,   11, 5, "DAI", FALSE),
      Trade(to,   11, 3, "ETH", TRUE),
      Trade(from, 10, 3, "DAI", FALSE) }

\* The retry_count the running get_trades call was given.
PassedRetryCount == calls[Len(calls)].retry_count[1]

\* A request answers: the trades of the window are returned and the loop's
\* counter dies with the call.
RequestOk ==
    /\ pc = "fetching"
    /\ attempts' = 0
    /\ \E ts \in SeqsUpTo(TradeUniverse(start_timestamp, end_timestamp), MaxTrades) :
          trades' = ts
    /\ pc' = "read_prices"
    /\ UNCHANGED <<argv, arguments, backend, clock, start_timestamp,
                   end_timestamp, calls, prices, alternative_prices,
                   sell_trades, buy_trades, plot, saved, shown, error>>

\* A request fails transiently and retries are left: the loop goes round.
RequestRetry ==
    /\ pc = "fetching"
    /\ attempts < PassedRetryCount
    /\ attempts' = attempts + 1
    /\ UNCHANGED <<argv, arguments, backend, pc, clock, start_timestamp,
                   end_timestamp, calls, trades, prices, alternative_prices,
                   sell_trades, buy_trades, plot, saved, shown, error>>

\* A request fails transiently and the retries are used up.
RequestExhausted ==
    /\ pc = "fetching"
    /\ attempts >= PassedRetryCount
    /\ attempts' = attempts + 1
    /\ Raise("FetchError")
    /\ UNCHANGED <<argv, arguments, backend, clock, start_timestamp,
                   end_timestamp, calls, trades, prices, alternative_prices,
                   sell_trades, buy_trades, plot, saved, shown>>

\* The credentials are rejected: fatal, never retried.
RequestAuthError ==
    /\ pc = "fetching"
    /\ attempts' = attempts + 1
    /\ Raise("AuthError")
    /\ UNCHANGED <<argv, arguments, backend, clock, start_timestamp,
                   end_timestamp, calls, trades, prices, alternative_prices,
                   sell_trades, buy_trades, plot, saved, shown>>

---------------------------------------------------------------------------
(* main, continued: the price reads *)

Price(timestamp, market_price) ==
    [ timestamp |-> timestamp, market_price |-> market_price ]

\* What a price reader may return for [from, to]: ascending, possibly empty.
PriceSeqs(from, to) ==
    { <<>>, <<Price(from, 10), Price(to, 11)>> }

\* Faulty variant: the file is tested with "is not None", so "" selects it.
PricesCall_IsNotNone ==
    IF arguments.price_history_file # None
    THEN Call("get_file_prices", "prices", arguments.price_history_file,
              start_timestamp, end_timestamp, None)
    ELSE Call("get_gdax_prices", "prices", None,
              start_timestamp, end_timestamp, None)

\* Lines 70-73: the reader of the primary prices and its arguments.
PricesCall ==
    IF Truthy(arguments.price_history_file)
    THEN Call("get_file_prices", "prices", arguments.price_history_file,
              start_timestamp, end_timestamp, None)
    ELSE Call("get_gdax_prices", "prices", None,
              start_timestamp, end_timestamp, None)

\* Faulty variant: "if ... if" for "if ... else", the network read always
\* happens after the file read.
ReadPrices_Both ==
    /\ pc = "read_prices"
    /\ calls' = calls \o
          << Call("get_file_prices", "prices", arguments.price_history_file,
                  start_timestamp, end_timestamp, None),
             Call("get_gdax_prices", "prices", None,
                  start_timestamp, end_timestamp, None) >>
    /\ \E ps \in PriceSeqs(start_timestamp, end_timestamp) : prices' = ps
    /\ pc' = "read_alternative_prices"
    /\ UNCHANGED <<argv, arguments, backend, clock, start_timestamp,
                   end_timestamp, attempts, trades, alternative_prices,
                   sell_trades, buy_trades, plot, saved, shown, error>>

\* Lines 70-73 with the call made.
ReadPrices ==
    /\ pc = "read_prices"
    /\ calls' = Append(calls, PricesCall)
    /\ \E ps \in PriceSeqs(PricesCall.from_timestamp, PricesCall.to_timestamp) :
          prices' = ps
    /\ pc' = "read_alternative_prices"
    /\ UNCHANGED <<argv, arguments, backend, clock, start_timestamp,
                   end_timestamp, attempts, trades, alternative_prices,
                   sell_trades, buy_trades, plot, saved, shown, error>>

\* The reader raises: ParseError from the file, FetchError from the network.
ReadPricesFails ==
    /\ pc = "read_prices"
    /\ calls' = Append(calls, PricesCall)
    /\ Raise(IF PricesCall.fn = "get_file_prices" THEN "ParseError" ELSE "FetchError")
    /\ UNCHANGED <<argv, arguments, backend, clock, start_timestamp,
                   end_timestamp, attempts, trades, prices, alternative_prices,
                   sell_trades, buy_trades, plot, saved, shown>>

\* Faulty variant: the window's ends are passed in the wrong order.
AlternativePricesCall_Swapped ==
    Call("get_file_prices", "alternative_prices",
         arguments.alternative_price_history_file,
         end_timestamp, start_timestamp, None)

\* Lines 75-76: the reader of the alternative prices, when there is one.
AlternativePricesCall ==
    Call("get_file_prices", "alternative_prices",
         arguments.alternative_price_history_file,
         start_timestamp, end_timestamp, None)

\* Line 75: whether the alternative prices are read at all.
ReadsAlternativePrices == Truthy(arguments.alternative_price_history_file)

ReadAlternativePrices ==
    /\ pc = "read_alternative_prices"
    /\ ReadsAlternativePrices
    /\ calls' = Append(calls, AlternativePricesCall)
    /\ \E ps \in PriceSeqs(AlternativePricesCall.from_timestamp,
                           AlternativePricesCall.to_timestamp) :
          alternative_prices' = ps
    /\ pc' = "draw"
    /\ UNCHANGED <<argv, arguments, backend, clock, start_timestamp,
                   end_timestamp, attempts, trades, prices, sell_trades,
                   buy_trades, plot, saved, shown, error>>

ReadAlternativePricesFails ==
    /\ pc = "read_alternative_prices"
    /\ ReadsAlternativePrices
    /\ calls' = Append(calls, AlternativePricesCall)
    /\ Raise("ParseError")
    /\ UNCHANGED <<argv, arguments, backend, clock, start_timestamp,
                   end_timestamp, attempts, trades, prices, alternative_prices,
                   sell_trades, buy_trades, plot, saved, shown>>

\* Lines 77-78: no alternative file, no read.
NoAlternativePrices ==
    /\ pc = "read_alternative_prices"
    /\ ~ReadsAlternativePrices
    /\ alternative_prices' = <<>>
    /\ pc' = "draw"
    /\ UNCHANGED <<argv, arguments, backend, clock, start_timestamp,
                   end_timestamp, calls, attempts, trades, prices, sell_trades,
                   buy_trades, plot, saved, shown, error>>

---------------------------------------------------------------------------
(* draw *)

to_timestamp(price_or_trade) == timestamp_to_x(price_or_trade.timestamp)

to_price(trade) == trade.price

\* Faulty variant: the size is taken from the price.
to_size_ByPrice(trade) == amount_to_size(trade.money_symbol, trade.price)

to_size(trade) == amount_to_size(trade.money_symbol, trade.money)

market_price(price) == price.market_price

\* list(map(self.to_timestamp, s)) and the other maps of draw
Timestamps(s) == [i \in 1..Len(s) |-> to_timestamp(s[i])]

MarketPrices(ps) == [i \in 1..Len(ps) |-> market_price(ps[i])]

TradePrices(ts) == [i \in 1..Len(ts) |-> to_price(ts[i])]

Sizes(ts) == [i \in 1..Len(ts) |-> to_size(ts[i])]

Reverse(s) == [i \in 1..Len(s) |-> s[Len(s) + 1 - i]]

\* Faulty variant: the sells come out newest first.
SellTrades_Reversed(ts) == Reverse(SelectSeq(ts, LAMBDA trade : trade.is_sell))

\* Line 117: list(filter(lambda trade: trade.is_sell, trades))
SellTrades(ts) == SelectSeq(ts, LAMBDA trade : trade.is_sell)

\* Faulty variant: the "not" is missing.
BuyTrades_NoNot(ts) == SelectSeq(ts, LAMBDA trade : trade.is_sell)

\* Line 123: list(filter(lambda trade: not trade.is_sell, trades))
BuyTrades(ts) == SelectSeq(ts, LAMBDA trade : ~trade.is_sell)

PlotCall(fn, x, y, s, style, zorder, fname) ==
    [ fn |-> fn, x |-> x, y |-> y, s |-> s, style |-> style,
      zorder |-> zorder, fname |-> fname ]

\* Line 98
SetXlim(start, end) ==
    PlotCall("set_xlim", <<timestamp_to_x(start), timestamp_to_x(end)>>,
             <<>>, <<>>, "", 0, None)

\* Lines 101-109: a price line, drawn only for a non-empty series.
PlotDate(ps, style, zorder) ==
    IF Len(ps) > 0
    THEN << PlotCall("plot_date", Timestamps(ps), MarketPrices(ps),
                     <<>>, style, zorder, None) >>
    ELSE <<>>

\* Lines 118-121 and 124-127
Scatter(ts, colour) ==
    PlotCall("scatter", Timestamps(ts), TradePrices(ts),
             Sizes(ts), colour, 3, None)

\* Faulty variant: the output is tested with "is not None", so "" saves.
OutputCall_IsNotNone ==
    IF arguments.output # None
    THEN PlotCall("savefig", <<>>, <<>>, <<>>, "", 0, arguments.output)
    ELSE PlotCall("show", <<>>, <<>>, <<>>, "", 0, None)

\* Lines 129-132: the one output call of draw.
OutputCall ==
    IF Truthy(arguments.output)
    THEN PlotCall("savefig", <<>>, <<>>, <<>>, "", 0, arguments.output)
    ELSE PlotCall("show", <<>>, <<>>, <<>>, "", 0, None)

\* Lines 95-132 in the order the code makes them.
DrawCalls(start, end, ps, alt, ts) ==
    << SetXlim(start, end) >>
    \o PlotDate(ps, "r-", 2)
    \o PlotDate(alt, "y-", 1)
    \o << Scatter(SellTrades(ts), "blue"), Scatter(BuyTrades(ts), "green") >>
    \o << OutputCall >>

DrawCall == Call("draw", "chart", None, start_timestamp, end_timestamp, None)

\* Line 80 and lines 91-132: draw runs to its end.
Draw ==
    /\ pc = "draw"
    /\ calls' = Append(calls, DrawCall)
    /\ sell_trades' = SellTrades(trades)
    /\ buy_trades' = BuyTrades(trades)
    /\ plot' = plot \o DrawCalls(DrawCall.from_timestamp, DrawCall.to_timestamp,
                                 prices, alternative_prices, trades)
    /\ saved' = IF OutputCall.fn = "savefig" THEN saved \cup {OutputCall.fname[1]}
                ELSE saved
    /\ shown' = (shown \/ OutputCall.fn = "show")
    /\ pc' = "done"
    /\ UNCHANGED <<argv, arguments, backend, clock, start_timestamp,
                   end_timestamp, attempts, trades, prices, alternative_prices,
                   error>>

\* The output call raises (an unwritable path, no display): nothing is written
\* or shown and the error leaves draw and main.
DrawFails ==
    /\ pc = "draw"
    /\ calls' = Append(calls, DrawCall)
    /\ sell_trades' = SellTrades(trades)
    /\ buy_trades' = BuyTrades(trades)
    /\ plot' = plot \o DrawCalls(DrawCall.from_timestamp, DrawCall.to_timestamp,
                                 prices, alternative_prices, trades)
    /\ Raise("RenderError")
    /\ UNCHANGED <<argv, arguments, backend, clock, start_timestamp,
                   end_timestamp, attempts, trades, prices, alternative_prices,
                   saved, shown>>

Next ==
    \/ MainWindow
    \/ CallGetTrades
    \/ RequestOk
    \/ RequestRetry
    \/ RequestExhausted
    \/ RequestAuthError
    \/ ReadPrices
    \/ ReadPricesFails
    \/ ReadAlternativePrices
    \/ ReadAlternativePricesFails
    \/ NoAlternativePrices
    \/ Draw
    \/ DrawFails

Spec == Init /\ [][Next]_vars

---------------------------------------------------------------------------
(* Properties *)

CallsInto(into) == {i \in 1..Len(calls) : calls[i].into = into}

PlotCalls(fn) == {i \in 1..Len(plot) : plot[i].fn = fn}

\* draw has been entered and has partitioned and plotted the trades.
DrawHasRun == CallsInto("chart") # {}

\* The step whose call raised.
FailedAt == calls[Len(calls)].into

Count(t, s) == Cardinality({i \in 1..Len(s) : s[i] = t})

ScatterCall(colour) ==
    plot[CHOOSE i \in PlotCalls("scatter") : plot[i].style = colour]

\* C1: in draw the partition by is_sell is exhaustive and disjoint: every
\* input trade is in exactly one of sell_trades / buy_trades (sell iff is_sell)
\* and len(buy_trades) + len(sell_trades) = len(trades).
C1_PartitionExhaustiveDisjoint ==
    DrawHasRun =>
        /\ Len(buy_trades) + Len(sell_trades) = Len(trades)
        /\ \A i \in 1..Len(trades) :
              LET t == trades[i] IN
              /\ Count(t, sell_trades) + Count(t, buy_trades) = Count(t, trades)
              /\ Count(t, sell_trades) = (IF t.is_sell THEN Count(t, trades) ELSE 0)
              /\ Count(t, buy_trades) = (IF t.is_sell THEN 0 ELSE Count(t, trades))
        /\ \A i \in 1..Len(sell_trades) : sell_trades[i].is_sell
        /\ \A i \in 1..Len(buy_trades) : ~buy_trades[i].is_sell

\* The spec's scenario: a sell at the window's start, then a buy at its end.
C1_Witness ==
    /\ DrawHasRun
    /\ Len(trades) = 2
    /\ trades[1].is_sell /\ trades[1].timestamp = start_timestamp
    /\ ~trades[2].is_sell /\ trades[2].timestamp = end_timestamp
    /\ sell_trades = <<trades[1]>>
    /\ buy_trades = <<trades[2]>>

\* The positions of the trades of one side, and the k-th smallest of them.
SideIndices(side) == {i \in 1..Len(trades) : trades[i].is_sell = side}

Kth(S, k) == CHOOSE i \in S : Cardinality({j \in S : j <= i}) = k

IsStableFilter(part, side) ==
    /\ Len(part) = Cardinality(SideIndices(side))
    /\ \A k \in 1..Len(part) : part[k] = trades[Kth(SideIndices(side), k)]

ArraysFollow(part, call) ==
    /\ Len(call.x) = Len(part) /\ Len(call.y) = Len(part) /\ Len(call.s) = Len(part)
    /\ \A i \in 1..Len(part) :
          /\ call.x[i] = timestamp_to_x(part[i].timestamp)
          /\ call.y[i] = part[i].price
          /\ call.s[i] = amount_to_size(part[i].money_symbol, part[i].money)

\* C2: the partition is a stable filter: sell_trades and buy_trades keep the
\* input's relative order, and element i of the x, y and size arrays of each
\* scatter call comes from the i-th trade of its partition.
C2_StableFilter ==
    DrawHasRun =>
        /\ IsStableFilter(sell_trades, TRUE)
        /\ IsStableFilter(buy_trades, FALSE)
        /\ ArraysFollow(sell_trades, ScatterCall("blue"))
        /\ ArraysFollow(buy_trades, ScatterCall("green"))

C2_Witness ==
    /\ DrawHasRun
    /\ Len(sell_trades) >= 2
    /\ sell_trades[1] # sell_trades[2]
    /\ sell_trades[1].timestamp > sell_trades[2].timestamp

\* C3: a completed draw makes exactly one output call, after every price line
\* and both scatters: with an output path the chart is saved to that path and
\* never shown, without one it is shown and no file is written.
C3_OneOutputAction ==
    /\ ~(shown /\ saved # {})
    /\ Truthy(arguments.output) => backend = "Agg" /\ ~shown
    /\ ~Truthy(arguments.output) => saved = {}
    /\ pc = "done" =>
          /\ Cardinality(PlotCalls("savefig") \cup PlotCalls("show")) = 1
          /\ plot[Len(plot)].fn \in {"savefig", "show"}
          /\ Cardinality(PlotCalls("scatter")) = 2
          /\ Cardinality(PlotCalls("plot_date")) =
                 (IF Len(prices) > 0 THEN 1 ELSE 0)
                 + (IF Len(alternative_prices) > 0 THEN 1 ELSE 0)
          /\ IF Truthy(arguments.output)
             THEN /\ plot[Len(plot)].fn = "savefig"
                  /\ plot[Len(plot)].fname = arguments.output
                  /\ saved = {arguments.output[1]}
                  /\ ~shown
             ELSE /\ plot[Len(plot)].fn = "show"
                  /\ shown
                  /\ saved = {}

C3_Witness ==
    /\ pc = "done"
    /\ saved = {"chart.png"}
    /\ Len(prices) > 0 /\ Len(alternative_prices) > 0
    /\ Len(sell_trades) > 0 /\ Len(buy_trades) > 0

\* C4: within one run the same (start_timestamp, end_timestamp) pair goes to
\* the trade fetch, the primary price read, the alternative price read and
\* the chart's x-axis limits.
C4_OneWindow ==
    /\ \A i \in 1..Len(calls) :
          /\ calls[i].from_timestamp = start_timestamp
          /\ calls[i].to_timestamp = end_timestamp
    /\ \A i \in PlotCalls("set_xlim") :
          plot[i].x = <<timestamp_to_x(start_timestamp), timestamp_to_x(end_timestamp)>>
    /\ pc = "done" => Cardinality(PlotCalls("set_xlim")) = 1

C4_Witness ==
    /\ pc = "done"
    /\ CallsInto("alternative_prices") # {}
    /\ start_timestamp < end_timestamp

Stage(call) ==
    CASE call.into = "trades" -> 1
      [] call.into = "prices" -> 2
      [] call.into = "alternative_prices" -> 3
      [] call.into = "chart" -> 4

\* C5: the run is sequential: one trade fetch, one primary price fetch, at
\* most one alternative price fetch, one rendering call, in this order, each
\* after the previous has returned; no step runs twice and rendering never
\* precedes a fetch.
C5_SequentialOrder ==
    /\ \A i, j \in 1..Len(calls) : i < j => Stage(calls[i]) < Stage(calls[j])
    /\ pc = "fetching" => Len(calls) = 1 /\ calls[1].fn = "get_trades"
    /\ DrawHasRun => CallsInto("trades") # {} /\ CallsInto("prices") # {}
    /\ ~DrawHasRun => plot = <<>>
    /\ pc = "done" =>
          /\ Cardinality(CallsInto("trades")) = 1
          /\ Cardinality(CallsInto("prices")) = 1
          /\ Cardinality(CallsInto("alternative_prices")) <= 1
          /\ Cardinality(CallsInto("chart")) = 1
          /\ ~ENABLED Next

C5_Witness ==
    /\ pc = "done"
    /\ Len(calls) = 4

\* C6: an error of the trade fetch, of a price read or of rendering leaves
\* main uncaught and ends the run: after a failed fetch or read no later step
\* runs, draw is never called and no chart is saved or shown.
C6_ErrorsAreFatal ==
    error # None =>
        /\ pc = "failed"
        /\ ~ENABLED Next
        /\ saved = {} /\ ~shown
        /\ FailedAt \in {"trades", "prices", "alternative_prices"} =>
              ~DrawHasRun /\ plot = <<>>
        /\ FailedAt = "trades" => Len(calls) = 1 /\ prices = <<>>
        /\ FailedAt = "prices" => Len(calls) = 2 /\ alternative_prices = <<>>

C6_Witness ==
    /\ pc = "failed"
    /\ error = Some("ParseError")
    /\ FailedAt = "alternative_prices"
    /\ Len(trades) > 0 /\ Len(prices) > 0

\* The retry count of the command line, 20 when the option is absent.
CommandLineRetryCount ==
    IF argv.bibox_retry_count = None THEN DefaultRetryCount
    ELSE argv.bibox_retry_count[1]

\* C7: the trade fetch is given the command line's retry count (default 20),
\* retries a transient failure at most that many times, 1 + retry_count
\* requests in all, and then raises; with retry_count = 0 the first failure
\* raises at once.
C7_BoundedRetry ==
    /\ \A i \in CallsInto("trades") :
          calls[i].retry_count = Some(CommandLineRetryCount)
    /\ pc = "fetching" => attempts <= CommandLineRetryCount
    /\ attempts <= 1 + CommandLineRetryCount
    /\ (error = Some("FetchError") /\ FailedAt = "trades") =>
          attempts = 1 + CommandLineRetryCount

C7_Witness ==
    /\ error = Some("FetchError")
    /\ FailedAt = "trades"
    /\ argv.bibox_retry_count = Some(0)
    /\ attempts = 1

\* The markers drawn, each as <<trade, size>>.
Markers ==
    {<<sell_trades[i], ScatterCall("blue").s[i]>> : i \in 1..Len(sell_trades)}
    \cup {<<buy_trades[i], ScatterCall("green").s[i]>> : i \in 1..Len(buy_trades)}

SameVolume(t, u) == t.money = u.money /\ t.money_symbol = u.money_symbol

\* C8: the marker size depends on money and money_symbol only: two trades
\* equal in both get the same size whatever their price, timestamp or side.
C8_SizeFromVolumeOnly ==
    DrawHasRun =>
        \A m, n \in Markers : SameVolume(m[1], n[1]) => m[2] = n[2]

C8_Witness ==
    /\ DrawHasRun
    /\ \E m, n \in Markers :
          /\ SameVolume(m[1], n[1])
          /\ m[1].price # n[1].price
          /\ m[1].timestamp # n[1].timestamp
          /\ m[1].is_sell # n[1].is_sell

\* C9: the window is [now - duration, now] for one instant now:
\* start_timestamp <= end_timestamp and end_timestamp - start_timestamp is
\* the duration in seconds.
C9_WindowIsDuration ==
    pc # "main" =>
        /\ start_timestamp <= end_timestamp
        /\ end_timestamp - start_timestamp = to_seconds(arguments.past)

\* C10: the primary prices come from the file reader iff a price-history file
\* is given, else from the network reader, never both; the alternative prices
\* come from the file reader iff an alternative file is given, and are
\* otherwise empty, read from nowhere and not drawn.
C10_SourceByConfiguration ==
    /\ Cardinality(CallsInto("prices")) <= 1
    /\ Cardinality(CallsInto("alternative_prices")) <= 1
    /\ \A i \in CallsInto("prices") :
          IF Truthy(arguments.price_history_file)
          THEN /\ calls[i].fn = "get_file_prices"
               /\ calls[i].source = arguments.price_history_file
          ELSE calls[i].fn = "get_gdax_prices"
    /\ \A i \in 1..Len(calls) :
          calls[i].fn = "get_gdax_prices" => calls[i].into = "prices"
    /\ \A i \in CallsInto("alternative_prices") :
          /\ calls[i].fn = "get_file_prices"
          /\ calls[i].source = arguments.alternative_price_history_file
    /\ pc \in {"read_alternative_prices", "draw", "done"} =>
          Cardinality(CallsInto("prices")) = 1
    /\ pc \in {"draw", "done"} =>
          (CallsInto("alternative_prices") # {}
              <=> Truthy(arguments.alternative_price_history_file))
    /\ ~Truthy(arguments.alternative_price_history_file) =>
          /\ CallsInto("alternative_prices") = {}
          /\ alternative_prices = <<>>
          /\ \A i \in PlotCalls("plot_date") : plot[i].style # "y-"

C10_Witness ==
    /\ pc = "done"
    /\ arguments.price_history_file = Some("")
    /\ arguments.alternative_price_history_file = None
    /\ calls[2].fn = "get_gdax_prices"
    /\ Len(prices) > 0

=============================================================================
